---- MODULE Spec2Model ----
(***************************************************************************)
(* Model of the stringmatch crate (src/src/lib.rs): the Needle capability, *)
(* the configurable StringMatch matcher, the &str / String adapters and    *)
(* NeedleIter::is_match_in.                                                *)
(*                                                                         *)
(* A string is a sequence of characters.  A character is written as a TLA+ *)
(* string: " ", "A", "a" stand for themselves, "Sigma" for U+03A3 (Greek   *)
(* capital sigma), "sigma" for U+03C3 (small sigma) and "final_sigma" for  *)
(* U+03C2 (small final sigma).  str::to_lowercase, str::contains, == and   *)
(* Iterator::any are modelled by what the Rust standard library computes.  *)
(***************************************************************************)
EXTENDS Integers, Sequences, FiniteSets

\* ------------------------------------------------------------------ bounds
MaxNeedleLen == 2
MaxHayLen == 3
MaxCands == 3

\* The characters the inputs are built from: a space, an ASCII capital and
\* the Greek case pair whose lowercasing depends on its context.
Alphabet == {" ", "A", "Sigma", "sigma"}

StringsUpTo(n) == UNION {[1..k -> Alphabet] : k \in 0..n}

Needles == StringsUpTo(MaxNeedleLen)
Haystacks == StringsUpTo(MaxHayLen)

\* Needles and candidates of the sequence search.
IterNeedles == {<<>>, <<"A">>}
IterCands == {<<>>, <<"A">>, <<"a">>, <<"A", "A">>}
CandSeqs == UNION {[1..k -> IterCands] : k \in 0..MaxCands}

Lengths == {"Full", "Partial", "Word"}

VARIABLES
    kind,            \* which Needle implementor the value is
    text,            \* StringMatch.text (the value itself for &str / String)
    match_length,    \* StringMatch.match_length
    case_sensitive,  \* StringMatch.case_sensitive
    last_length,     \* the last length builder called since from(), or "none"
    last_case,       \* the last case builder called since from(), or "none"
    haystack,        \* the candidate is_match is called with
    called,          \* TRUE once is_match has been called on this value
    result,          \* what that call returned (FALSE before the call)
    haystacks,       \* is_match_in: what the caller's iterator still holds
    pulled,          \* is_match_in: the items next() has handed out, in order
    evaluated,       \* is_match_in: the candidates is_match was called on, in order
    cur,             \* is_match_in: the item pulled last
    pc,              \* is_match_in: position inside Iterator::any
    ret              \* is_match_in: the value returned (meaningful once pc = "done")

self_vars == <<kind, text, match_length, case_sensitive, last_length, last_case>>
call_vars == <<haystack, called, result>>
iter_vars == <<haystacks, pulled, evaluated, cur, pc, ret>>
vars == <<kind, text, match_length, case_sensitive, last_length, last_case,
          haystack, called, result, haystacks, pulled, evaluated, cur, pc, ret>>

\* ------------------------------------------------------- std string model
\* str::contains(&str): the needle occurs at some offset of the haystack.
Contains(h, n) ==
    \E p \in 0..(Len(h) - Len(n)) : SubSeq(h, p + 1, p + Len(n)) = n

\* format!(" {} ", s)
Pad(s) == <<" ">> \o s \o <<" ">>

\* core::unicode::Cased and Case_Ignorable on the alphabet and its images.
Cased(c) == c \in {"a", "A", "Sigma", "sigma", "final_sigma"}
Case_Ignorable(c) == FALSE

\* char::to_lowercase for every character but the capital sigma.
to_lower(c) == IF c = "A" THEN <<"a">> ELSE <<c>>

\* case_ignorable_then_cased over s[i], s[i+d], s[i+2d], ...
RECURSIVE case_ignorable_then_cased(_, _, _)
case_ignorable_then_cased(s, i, d) ==
    IF i < 1 \/ i > Len(s) THEN FALSE
    ELSE IF Case_Ignorable(s[i]) THEN case_ignorable_then_cased(s, i + d, d)
    ELSE Cased(s[i])

\* A capital sigma ends a word when a cased letter precedes it and none follows.
map_uppercase_sigma(s, i) ==
    IF case_ignorable_then_cased(s, i - 1, -1) /\ ~case_ignorable_then_cased(s, i + 1, 1)
    THEN "final_sigma" ELSE "sigma"

RECURSIVE lower_from(_, _)
lower_from(s, i) ==
    IF i > Len(s) THEN <<>>
    ELSE (IF s[i] = "Sigma" THEN <<map_uppercase_sigma(s, i)>> ELSE to_lower(s[i]))
         \o lower_from(s, i + 1)

\* str::to_lowercase
to_lowercase(s) == lower_from(s, 1)

\* ------------------------------------------------------------ the matcher
\* Variants of needle_in_haystack with one arm changed.
needle_in_haystack_full_contains(needle, hs, ml) ==
    CASE ml = "Full" -> Contains(hs, needle)
      [] ml = "Partial" -> Contains(hs, needle)
      [] ml = "Word" -> Contains(Pad(hs), Pad(needle))

needle_in_haystack_word_half_padded(needle, hs, ml) ==
    CASE ml = "Full" -> hs = needle
      [] ml = "Partial" -> Contains(hs, needle)
      [] ml = "Word" -> Contains(Pad(hs), <<" ">> \o needle)

needle_in_haystack_partial_swapped(needle, hs, ml) ==
    CASE ml = "Full" -> hs = needle
      [] ml = "Partial" -> Contains(needle, hs)
      [] ml = "Word" -> Contains(Pad(hs), Pad(needle))

needle_in_haystack_word_unpadded_haystack(needle, hs, ml) ==
    CASE ml = "Full" -> hs = needle
      [] ml = "Partial" -> Contains(hs, needle)
      [] ml = "Word" -> Contains(hs, Pad(needle))

needle_in_haystack(needle, hs, ml) ==
    CASE ml = "Full" -> hs = needle
      [] ml = "Partial" -> Contains(hs, needle)
      [] ml = "Word" -> Contains(Pad(hs), Pad(needle))

\* impl Needle for StringMatch
StringMatch_is_match(t, ml, cs, hs) ==
    IF cs THEN needle_in_haystack(t, hs, ml)
    ELSE needle_in_haystack(to_lowercase(t), to_lowercase(hs), ml)

\* A &str needle that accepts any candidate containing it.
str_is_match_contains(v, hs) == Contains(hs, v)

\* impl Needle for &str
str_is_match(v, hs) == v = hs

\* impl Needle for String
String_is_match(v, hs) == v = hs

is_full_match == match_length = "Full"
is_partial_match == match_length = "Partial"
is_word_match == match_length = "Word"
is_case_sensitive == case_sensitive

\* The value is_match returns for the Needle value held in the state.
is_match(hs) ==
    CASE kind = "StringMatch" -> StringMatch_is_match(text, match_length, case_sensitive, hs)
      [] kind = "str" -> str_is_match(text, hs)
      [] kind = "String" -> String_is_match(text, hs)

\* ---------------------------------------------------------------- actions
\* StringMatch::from(text) for a StringMatch; the bare value for &str / String.
Init ==
    /\ kind \in {"StringMatch", "str", "String"}
    /\ text \in Needles
    /\ match_length = "Full"
    /\ case_sensitive = TRUE
    /\ last_length = "none"
    /\ last_case = "none"
    /\ haystack \in Haystacks
    /\ called = FALSE
    /\ result = FALSE
    /\ haystacks = <<>>
    /\ pulled = <<>>
    /\ evaluated = <<>>
    /\ cur = <<>>
    /\ pc = "idle"
    /\ ret = FALSE

partial ==
    /\ kind = "StringMatch"
    /\ match_length' = "Partial"
    /\ last_length' = "partial"
    /\ called' = FALSE
    /\ result' = FALSE
    /\ UNCHANGED <<kind, text, case_sensitive, last_case, haystack>>
    /\ UNCHANGED iter_vars

full ==
    /\ kind = "StringMatch"
    /\ match_length' = "Full"
    /\ last_length' = "full"
    /\ called' = FALSE
    /\ result' = FALSE
    /\ UNCHANGED <<kind, text, case_sensitive, last_case, haystack>>
    /\ UNCHANGED iter_vars

\* word() that sets the Partial length.
word_sets_partial ==
    /\ kind = "StringMatch"
    /\ match_length' = "Partial"
    /\ last_length' = "word"
    /\ called' = FALSE
    /\ result' = FALSE
    /\ UNCHANGED <<kind, text, case_sensitive, last_case, haystack>>
    /\ UNCHANGED iter_vars

word ==
    /\ kind = "StringMatch"
    /\ match_length' = "Word"
    /\ last_length' = "word"
    /\ called' = FALSE
    /\ result' = FALSE
    /\ UNCHANGED <<kind, text, case_sensitive, last_case, haystack>>
    /\ UNCHANGED iter_vars

case_insensitive ==
    /\ kind = "StringMatch"
    /\ case_sensitive' = FALSE
    /\ last_case' = "case_insensitive"
    /\ called' = FALSE
    /\ result' = FALSE
    /\ UNCHANGED <<kind, text, match_length, last_length, haystack>>
    /\ UNCHANGED iter_vars

case_sensitive_builder ==
    /\ kind = "StringMatch"
    /\ case_sensitive' = TRUE
    /\ last_case' = "case_sensitive"
    /\ called' = FALSE
    /\ result' = FALSE
    /\ UNCHANGED <<kind, text, match_length, last_length, haystack>>
    /\ UNCHANGED iter_vars

\* needle.is_match(haystack)
call_is_match ==
    /\ ~called
    /\ called' = TRUE
    /\ result' = is_match(haystack)
    /\ UNCHANGED self_vars
    /\ UNCHANGED haystack
    /\ UNCHANGED iter_vars

\* ------------------------------------------------------------ is_match_in
\* needle.is_match_in(&mut haystacks) has just been called on a needle in any
\* configuration the builders reach.
InitIter ==
    /\ kind \in {"StringMatch", "str", "String"}
    /\ text \in IterNeedles
    /\ match_length \in (IF kind = "StringMatch" THEN Lengths ELSE {"Full"})
    /\ case_sensitive \in (IF kind = "StringMatch" THEN BOOLEAN ELSE {TRUE})
    /\ last_length = (CASE match_length = "Full" -> "full"
                        [] match_length = "Partial" -> "partial"
                        [] match_length = "Word" -> "word")
    /\ last_case = (IF case_sensitive THEN "case_sensitive" ELSE "case_insensitive")
    /\ haystack = <<>>
    /\ called = FALSE
    /\ result = FALSE
    /\ haystacks \in CandSeqs
    /\ pulled = <<>>
    /\ evaluated = <<>>
    /\ cur = <<>>
    /\ pc = "next"
    /\ ret = FALSE

\* any() that answers true when the iterator runs out.
any_next_true_when_exhausted ==
    /\ pc = "next"
    /\ IF haystacks = <<>>
       THEN /\ pc' = "done"
            /\ ret' = TRUE
            /\ UNCHANGED <<haystacks, pulled, cur>>
       ELSE /\ cur' = Head(haystacks)
            /\ haystacks' = Tail(haystacks)
            /\ pulled' = Append(pulled, Head(haystacks))
            /\ pc' = "call"
            /\ UNCHANGED ret
    /\ UNCHANGED evaluated
    /\ UNCHANGED self_vars
    /\ UNCHANGED call_vars

\* Iterator::any: self.next()
any_next ==
    /\ pc = "next"
    /\ IF haystacks = <<>>
       THEN /\ pc' = "done"
            /\ ret' = FALSE
            /\ UNCHANGED <<haystacks, pulled, cur>>
       ELSE /\ cur' = Head(haystacks)
            /\ haystacks' = Tail(haystacks)
            /\ pulled' = Append(pulled, Head(haystacks))
            /\ pc' = "call"
            /\ UNCHANGED ret
    /\ UNCHANGED evaluated
    /\ UNCHANGED self_vars
    /\ UNCHANGED call_vars

\* any() that remembers a match and goes on to the next item.
any_call_keeps_going ==
    /\ pc = "call"
    /\ evaluated' = Append(evaluated, cur)
    /\ pc' = "next"
    /\ ret' = (ret \/ is_match(cur))
    /\ UNCHANGED <<haystacks, pulled, cur>>
    /\ UNCHANGED self_vars
    /\ UNCHANGED call_vars

\* Iterator::any: the closure |h| self.is_match(h.into()) on the item pulled
any_call ==
    /\ pc = "call"
    /\ evaluated' = Append(evaluated, cur)
    /\ IF is_match(cur)
       THEN pc' = "done" /\ ret' = TRUE
       ELSE pc' = "next" /\ UNCHANGED ret
    /\ UNCHANGED <<haystacks, pulled, cur>>
    /\ UNCHANGED self_vars
    /\ UNCHANGED call_vars

NextIter ==
    \/ any_next
    \/ any_call

SpecIter == InitIter /\ [][NextIter]_vars

Next ==
    \/ partial
    \/ full
    \/ word
    \/ case_insensitive
    \/ case_sensitive_builder
    \/ call_is_match

Spec == Init /\ [][Next]_vars

\* ----------------------------------------------------------------- claims
IsStringMatch == kind = "StringMatch"
Unconfigured == last_length = "none" /\ last_case = "none"

\* C1: a matcher built by StringMatch::from(s) with no builder call (Full,
\* case-sensitive) matches a candidate t exactly when t = s: no case variant,
\* no longer or shorter string, and "" only when s is "".
C1_FullCaseSensitiveExact ==
    (IsStringMatch /\ called /\ Unconfigured) =>
        /\ result = (haystack = text)
        /\ (Len(haystack) # Len(text) => ~result)
        /\ (haystack = <<>> /\ result => text = <<>>)

C1_Witness ==
    IsStringMatch /\ called /\ Unconfigured /\ result /\ text # <<>>

\* The needle occurs in h at an offset where it is preceded by the start of h or
\* a space and followed by the end of h or a space.
WordToken(n, h) ==
    \E p \in 0..(Len(h) - Len(n)) :
        /\ SubSeq(h, p + 1, p + Len(n)) = n
        /\ (p = 0 \/ h[p] = " ")
        /\ (p + Len(n) = Len(h) \/ h[p + Len(n) + 1] = " ")

\* " h " contains " n "
WordReference(n, h) == Contains(<<" ">> \o h \o <<" ">>, <<" ">> \o n \o <<" ">>)

\* C2: a case-sensitive Word matcher matches h exactly when the needle occurs in
\* h as a token bounded by the start/end of h or a space on each side, and that
\* is the result of the padded-substring reference construction.
C2_WordIsTokenMatch ==
    (IsStringMatch /\ called /\ match_length = "Word" /\ case_sensitive) =>
        /\ result = WordToken(text, haystack)
        /\ WordToken(text, haystack) = WordReference(text, haystack)

C2_Witness ==
    /\ IsStringMatch /\ called /\ match_length = "Word" /\ case_sensitive
    /\ result
    /\ Len(haystack) = 3 /\ text = <<haystack[2]>> /\ text # <<" ">>

\* The upper- and lower-case form of one character.
char_upper(c) == CASE c = "a" -> "A" [] c = "sigma" -> "Sigma" [] c = "final_sigma" -> "Sigma" [] OTHER -> c
char_lower(c) == CASE c = "A" -> "a" [] c = "Sigma" -> "sigma" [] OTHER -> c

\* t is a case permutation of s.
CasePermutation(t, s) ==
    /\ Len(t) = Len(s)
    /\ \A i \in 1..Len(s) : t[i] \in {char_upper(s[i]), char_lower(s[i])}

C4_EmptyCandidateNeverMatches ==
    (IsStringMatch /\ called /\ text # <<>> /\ haystack = <<>>) => ~result

C4_Witness ==
    /\ IsStringMatch /\ called /\ text # <<>> /\ haystack = <<>>
    /\ match_length = "Word" /\ ~case_sensitive

\* C5: after from(s) and any sequence of builder calls the text is still s,
\* exactly one of the three length inspectors is true and it is the one the last
\* length builder named (Full without one), is_case_sensitive is what the last
\* case builder set (true without one), and a builder of one kind leaves the
\* other setting alone.
C5_BuildersLastWins ==
    /\ [](IsStringMatch =>
            /\ Cardinality({i \in 1..3 :
                   <<is_full_match, is_partial_match, is_word_match>>[i]}) = 1
            /\ is_full_match = (last_length \in {"none", "full"})
            /\ is_partial_match = (last_length = "partial")
            /\ is_word_match = (last_length = "word")
            /\ is_case_sensitive = (last_case \in {"none", "case_sensitive"}))
    /\ [][/\ text' = text
          /\ (last_case' # last_case => match_length' = match_length)
          /\ (last_length' # last_length => case_sensitive' = case_sensitive)]_vars

C5_Witness ==
    /\ IsStringMatch /\ last_length = "word" /\ last_case = "case_insensitive"
    /\ is_word_match /\ ~is_case_sensitive /\ text # <<>>

\* Every candidate of the sequence handed to is_match_in, in order.
AllCandidates == pulled \o haystacks

\* C6: is_match_in returns true exactly when at least one candidate of the
\* sequence satisfies is_match, wherever it stands; false for the empty sequence.
C6_IsMatchInIsAny ==
    pc = "done" =>
        /\ ret = (\E i \in 1..Len(AllCandidates) : is_match(AllCandidates[i]))
        /\ (AllCandidates = <<>> => ~ret)

C6_Witness ==
    pc = "done" /\ ret /\ Len(pulled) >= 2

\* C7: is_match_in pulls the candidates up to and including the first match,
\* calls is_match once on each in order, and leaves the rest in the iterator;
\* without a match it pulls and tests every candidate once.
C7_ShortCircuit ==
    /\ \A i \in 1..(Len(pulled) - 1) : ~is_match(pulled[i])
    /\ evaluated = SubSeq(pulled, 1, Len(evaluated))
    /\ Len(pulled) - Len(evaluated) = (IF pc = "call" THEN 1 ELSE 0)
    /\ (pc = "done" /\ ret => pulled # <<>> /\ is_match(pulled[Len(pulled)]))
    /\ (pc = "done" /\ ~ret => haystacks = <<>>)

C7_Witness ==
    pc = "done" /\ ret /\ Len(pulled) >= 2 /\ haystacks # <<>>

\* C8: a &str or String used as a Needle matches t exactly when it equals t,
\* which is what StringMatch::from(v) in its default configuration returns.
C8_StrNeedleExact ==
    (kind \in {"str", "String"} /\ called) =>
        /\ result = (text = haystack)
        /\ result = StringMatch_is_match(text, "Full", TRUE, haystack)

C8_Witness ==
    kind = "str" /\ called /\ result /\ text # <<>>

\* C9: with the case setting fixed, a Full match is a Word match and a Word
\* match is a Partial match.
C9_FullWordPartial ==
    (IsStringMatch /\ called /\ result) =>
        /\ (match_length = "Full" =>
                StringMatch_is_match(text, "Word", case_sensitive, haystack))
        /\ (match_length = "Word" =>
                StringMatch_is_match(text, "Partial", case_sensitive, haystack))

C9_Witness ==
    /\ IsStringMatch /\ called /\ result /\ match_length = "Word"
    /\ text # haystack /\ text # <<>>

\* C10 as stated: a candidate the case-sensitive matcher matches is matched by
\* the matcher with the same text and mode after case_insensitive().
C10_RelaxingCaseKeepsMatch ==
    (IsStringMatch /\ called /\ case_sensitive /\ result) =>
        StringMatch_is_match(text, match_length, FALSE, haystack)

====
